---- MODULE Spec2Model ----
(***************************************************************************)
(* Model of the OAuth2 authorization-code handlers of KXS-Bot-OAuth2.      *)
(*                                                                         *)
(* The repository holds three versions of the request handler:             *)
(*   "json"  : src/api/oauth.js        (JSON responses)                     *)
(*   "html"  : src/unnamed/part_000    (HTML pages, nothing sensitive shown)*)
(*   "basic" : src/unnamed/part_001    (bare code-for-token exchange)       *)
(*                                                                         *)
(* A JavaScript string is a sequence of one-character strings.  The value  *)
(* `undefined` is the one-element sequence Undefined.                      *)
(***************************************************************************)
EXTENDS Integers, Sequences, FiniteSets, TLC

VARIABLES
    variant,               \* which handler serves the request
    CLIENT_ID,             \* process.env.CLIENT_ID
    CLIENT_SECRET,         \* process.env.CLIENT_SECRET
    REDIRECT_URI,          \* process.env.REDIRECT_URI
    ENV_REQUIRED_SCOPES,   \* process.env.REQUIRED_SCOPES
    ENV_SUCCESS_REDIRECT,  \* process.env.SUCCESS_REDIRECT_URL
    code,                  \* req.query.code
    pc,                    \* position of the async handler
    calls,                 \* outbound requests issued so far, in order
    tokenResp,             \* what axios.post resolved to (or how it rejected)
    userResp,              \* what axios.get resolved to (or how it rejected)
    caught,                \* the exception caught by the top-level catch
    outcome,               \* FlowOutcome of the invocation
    response               \* what was written to res

vars == <<variant, CLIENT_ID, CLIENT_SECRET, REDIRECT_URI, ENV_REQUIRED_SCOPES,
          ENV_SUCCESS_REDIRECT, code, pc, calls, tokenResp, userResp, caught,
          outcome, response>>

-----------------------------------------------------------------------------
(* Bounds of the model *)

\* longest list of scope names in a generated REQUIRED_SCOPES value
MaxRequired == 2
\* longest list of scope names in a generated token `scope` value
MaxGranted == 2

-----------------------------------------------------------------------------
(* JavaScript values and string primitives *)

Undefined == <<"undefined">>

\* !v for a string-or-undefined value
Falsy(v) == v = Undefined \/ v = <<>>

\* String(v), as URLSearchParams and template literals convert a value
ToStr(v) == IF v = Undefined THEN <<"u","n","d","e","f","i","n","e","d">> ELSE v

\* a || b
OrElse(a, b) == IF Falsy(a) THEN b ELSE a

RECURSIVE IndexOf(_, _, _)
\* first position >= i of character c in s, 0 when there is none
IndexOf(s, c, i) ==
    IF i > Len(s) THEN 0
    ELSE IF s[i] = c THEN i
    ELSE IndexOf(s, c, i + 1)

RECURSIVE Split(_, _)
\* String.prototype.split(sep) for a one-character separator
Split(s, sep) ==
    LET i == IndexOf(s, sep, 1) IN
    IF i = 0 THEN <<s>>
    ELSE <<SubSeq(s, 1, i - 1)>> \o Split(SubSeq(s, i + 1, Len(s)), sep)

RECURSIVE Join(_, _)
\* Array.prototype.join(sep)
Join(parts, sep) ==
    IF Len(parts) = 0 THEN <<>>
    ELSE IF Len(parts) = 1 THEN parts[1]
    ELSE parts[1] \o sep \o Join(Tail(parts), sep)

RECURSIVE TrimStart(_)
TrimStart(s) ==
    IF Len(s) > 0 /\ s[1] = " " THEN TrimStart(Tail(s)) ELSE s

RECURSIVE TrimEnd(_)
TrimEnd(s) ==
    IF Len(s) > 0 /\ s[Len(s)] = " " THEN TrimEnd(SubSeq(s, 1, Len(s) - 1)) ELSE s

\* String.prototype.trim()
Trim(s) == TrimEnd(TrimStart(s))

\* Array.prototype.filter(Boolean) on an array of strings
FilterBoolean(parts) == SelectSeq(parts, LAMBDA p : p # <<>>)

RECURSIVE Includes(_, _)
\* Array.prototype.includes
Includes(arr, x) ==
    IF Len(arr) = 0 THEN FALSE
    ELSE IF Head(arr) = x THEN TRUE
    ELSE Includes(Tail(arr), x)

-----------------------------------------------------------------------------
(* Form encoding *)

\* characters the application/x-www-form-urlencoded serializer leaves alone
\* (ASCII alphanumerics and * - . _), as far as the model's strings use them
FormSafe ==
    {"a","b","c","d","e","f","g","h","i","j","k","l","m","n","o","p","q","r",
     "s","t","u","v","w","x","y","z","0","1","2","3","4","5","6","7","8","9",
     "A","B","C","D","E","F","*","-",".","_"}

\* the percent-encoding of the other characters the model's strings use
PctCode ==
    [ch \in {" ", "+", ":", "/", "%", "&", "="} |->
        CASE ch = " " -> <<"%","2","0">>
          [] ch = "+" -> <<"%","2","B">>
          [] ch = ":" -> <<"%","3","A">>
          [] ch = "/" -> <<"%","2","F">>
          [] ch = "%" -> <<"%","2","5">>
          [] ch = "&" -> <<"%","2","6">>
          [] ch = "=" -> <<"%","3","D">>]

RECURSIVE FormEncode(_)
\* URLSearchParams serialization of one name or value: a space becomes "+",
\* every other character outside FormSafe is percent-encoded
FormEncode(s) ==
    IF Len(s) = 0 THEN <<>>
    ELSE (IF Head(s) \in FormSafe THEN <<Head(s)>>
          ELSE IF Head(s) = " " THEN <<"+">>
          ELSE PctCode[Head(s)]) \o FormEncode(Tail(s))

RECURSIVE SerializeParams(_)
\* URLSearchParams.prototype.toString() over a list of <<name, value>> pairs
SerializeParams(pairs) ==
    IF Len(pairs) = 0 THEN <<>>
    ELSE FormEncode(pairs[1][1]) \o <<"=">> \o FormEncode(ToStr(pairs[1][2]))
         \o (IF Len(pairs) > 1 THEN <<"&">> \o SerializeParams(Tail(pairs)) ELSE <<>>)

RECURSIVE QsEncode(_)
\* qs's default encoder (RFC 3986): a space becomes %20
QsEncode(s) ==
    IF Len(s) = 0 THEN <<>>
    ELSE (IF Head(s) \in (FormSafe \ {"*"}) THEN <<Head(s)>>
          ELSE PctCode[Head(s)]) \o QsEncode(Tail(s))

RECURSIVE QsStringify(_)
\* qs.stringify over a list of <<name, value>> pairs: undefined values are skipped
QsStringify(pairs) ==
    LET kept == SelectSeq(pairs, LAMBDA p : p[2] # Undefined) IN
    IF Len(kept) = 0 THEN <<>>
    ELSE QsEncode(kept[1][1]) \o <<"=">> \o QsEncode(kept[1][2])
         \o (IF Len(kept) > 1 THEN <<"&">> \o QsStringify(Tail(kept)) ELSE <<>>)

-----------------------------------------------------------------------------
(* Module-level constants of the handlers *)

API_ENDPOINT == "https://discord.com/api/v10"

\* 'identify applications.commands gdm.join'
DefaultScopes ==
    <<"i","d","e","n","t","i","f","y"," ","a","p","p","l","i","c","a","t","i","o","n","s",".","c","o","m","m","a","n","d","s"," ","g","d","m",".","j","o","i","n">>

\* 'https://discord.com/app'
DefaultSuccessRedirect ==
    <<"h","t","t","p","s",":","/","/","d","i","s","c","o","r","d",".","c","o","m","/","a","p","p">>

\* const REQUIRED_SCOPES = (process.env.REQUIRED_SCOPES || '...').trim()
REQUIRED_SCOPES == Trim(OrElse(ENV_REQUIRED_SCOPES, DefaultScopes))

\* const SUCCESS_REDIRECT_URL = process.env.SUCCESS_REDIRECT_URL || '...'
SUCCESS_REDIRECT_URL == OrElse(ENV_SUCCESS_REDIRECT, DefaultSuccessRedirect)

\* the scope parameter handed to URLSearchParams
ScopeParam == Join(Split(REQUIRED_SCOPES, " "), <<"+">>)

\* buildAuthorizeUrl(): `https://discord.com/oauth2/authorize?${params.toString()}`
\* kept as the fixed prefix and the serialized query
buildAuthorizeUrl ==
    [base  |-> "https://discord.com/oauth2/authorize",
     query |-> SerializeParams(<<
                  <<<<"c","l","i","e","n","t","_","i","d">>, CLIENT_ID>>,
                  <<<<"r","e","d","i","r","e","c","t","_","u","r","i">>, REDIRECT_URI>>,
                  <<<<"r","e","s","p","o","n","s","e","_","t","y","p","e">>, <<"c","o","d","e">>>>,
                  <<<<"s","c","o","p","e">>, ScopeParam>> >>)]

NoUrl == [base |-> "", query |-> <<>>]

\* const grantedScopes = (tokenData.scope || '').split(' ').filter(Boolean)
grantedScopes(tokenData) == FilterBoolean(Split(OrElse(tokenData.scope, <<>>), " "))

\* const required = REQUIRED_SCOPES.split(' ').filter(Boolean)
required == FilterBoolean(Split(REQUIRED_SCOPES, " "))

\* the difference taken the wrong way round: granted.filter(g => !required.includes(g))
missingSwapped(granted) == SelectSeq(granted, LAMBDA g : ~Includes(required, g))

\* const missing = required.filter(r => !grantedScopes.includes(r))
missing(granted) == SelectSeq(required, LAMBDA r : ~Includes(granted, r))

-----------------------------------------------------------------------------
(* Response bodies of the provider *)

AbsentData == [kind |-> "absent", access_token |-> Undefined, scope |-> Undefined,
               error |-> "", id |-> ""]
NullData   == [AbsentData EXCEPT !.kind = "null"]

TokenData(scope) ==
    [AbsentData EXCEPT !.kind = "token", !.access_token = <<"t","0","k">>,
                       !.scope = scope]
ErrorData(e) == [AbsentData EXCEPT !.kind = "error", !.error = e]
UserData(id) == [AbsentData EXCEPT !.kind = "user", !.id = id]

-----------------------------------------------------------------------------
(* Inputs *)

Variants == {"json", "html", "basic"}

ClientIds     == {Undefined, <<>>, <<"1","2">>}
ClientSecrets == {Undefined, <<>>, <<"s","3","c">>}
RedirectUris  ==
    {Undefined, <<>>,
     <<"h","t","t","p","s",":","/","/","x","/","c","b">>,
     <<"a","+","b","/","c","%","3","D"," ","d","&","e","=","f">>}
SuccessRedirects == {Undefined, <<"h","t","t","p","s",":","/","/","x","/","o","k">>}
Codes == {Undefined, <<>>, <<"c","0","/","d">>}

ScopeNames == {<<"a">>, <<"b",".","c">>}

SeqsUpTo(S, n) == UNION {[1..k -> S] : k \in 0..n}

EnvRequiredScopes ==
    {Undefined}
    \cup {Join(s, <<" ">>) : s \in SeqsUpTo(ScopeNames, MaxRequired)}
    \cup {<<" ","a"," "," ","b",".","c"," ">>, <<" "," ">>}

GrantedScopeStrings ==
    {Undefined}
    \cup {Join(s, <<" ">>) : s \in SeqsUpTo(ScopeNames, MaxGranted)}
    \cup {<<"b",".","c"," "," ","a">>,
          <<"g","d","m",".","j","o","i","n"," ","i","d","e","n","t","i","f","y"," ","a","p","p","l","i","c","a","t","i","o","n","s",".","c","o","m","m","a","n","d","s">>}

TokenStatuses == {200, 201, 400, 500}
UserStatuses  == {200, 401}

\* bodies the token endpoint may send with a status
TokenBodies(st) ==
    IF st = 200 THEN {NullData} \cup {TokenData(g) : g \in GrantedScopeStrings}
    ELSE IF st = 201 THEN {TokenData(Undefined)}
    ELSE {NullData, ErrorData("invalid_grant")}

\* bodies the identity endpoint may send with a status
UserBodies(st) ==
    IF st = 200 THEN {NullData, UserData("42")} ELSE {ErrorData("401: Unauthorized")}

\* messages of the errors axios rejects with when the transport fails
TransportErrors == {"timeout of 0ms exceeded", "getaddrinfo ENOTFOUND discord.com"}

\* message of the TypeError raised by reading tokenData.scope of null
NullScopeError == "Cannot read properties of null (reading 'scope')"

-----------------------------------------------------------------------------
(* Outbound requests *)

\* axios.post(`${API_ENDPOINT}/oauth2/token`, qs.stringify({...}), {auth})
TokenRequest ==
    [op   |-> "POST /oauth2/token",
     url  |-> API_ENDPOINT,
     data |-> QsStringify(<<
                 <<<<"g","r","a","n","t","_","t","y","p","e">>, <<"a","u","t","h","o","r","i","z","a","t","i","o","n","_","c","o","d","e">>>>,
                 <<<<"c","o","d","e">>, code>>,
                 <<<<"r","e","d","i","r","e","c","t","_","u","r","i">>, REDIRECT_URI>> >>),
     auth |-> <<CLIENT_ID, CLIENT_SECRET>>]

\* axios.get(`${API_ENDPOINT}/users/@me`, {headers: {Authorization: `Bearer ${...}`}})
UserRequest(tokenData) ==
    [op   |-> "GET /users/@me",
     url  |-> API_ENDPOINT,
     data |-> <<>>,
     auth |-> <<<<"B","e","a","r","e","r">>, ToStr(tokenData.access_token)>>]

NoResp == [kind |-> "none", status |-> 0, data |-> AbsentData, message |-> ""]
Answered(st, d) == [kind |-> "answered", status |-> st, data |-> d, message |-> ""]
Failed(msg) == [kind |-> "failed", status |-> 0, data |-> AbsentData, message |-> msg]

-----------------------------------------------------------------------------
(* What a handler writes to res.  `fields` names the parts the body holds:  *)
(* the keys of a JSON object, or the variable parts of an HTML page.        *)

EmptyBody ==
    [fields |-> {}, error |-> "", message |-> "", title |-> "", status |-> 0,
     details |-> AbsentData, required |-> <<>>, granted |-> <<>>, missing |-> <<>>,
     authorize_url |-> NoUrl, ok |-> FALSE, token |-> AbsentData,
     user |-> AbsentData, redirect |-> <<>>]

NoResponse == [status |-> 0, type |-> "none", location |-> NoUrl, body |-> EmptyBody]

Json(st, body) == [status |-> st, type |-> "json", location |-> NoUrl, body |-> body]
Html(st, body) == [status |-> st, type |-> "html", location |-> NoUrl, body |-> body]

\* res.writeHead(302, { Location: authUrl }).end()
Redirect(authUrl) ==
    [status |-> 302, type |-> "redirect", location |-> authUrl, body |-> EmptyBody]

(* src/api/oauth.js *)

JsonMisconfigured ==
    Json(500, [EmptyBody EXCEPT
        !.fields = {"error", "message"},
        !.error = "server_misconfigured",
        !.message = "CLIENT_ID, CLIENT_SECRET and REDIRECT_URI must be set in environment variables."])

JsonExchangeFailed(st, d) ==
    Json(500, [EmptyBody EXCEPT
        !.fields = {"error", "status", "details", "authorize_url"},
        !.error = "token_exchange_failed",
        !.status = st,
        !.details = d,
        !.authorize_url = buildAuthorizeUrl])

JsonMissingScopes(granted) ==
    Json(400, [EmptyBody EXCEPT
        !.fields = {"error", "message", "required", "granted", "missing", "authorize_url"},
        !.error = "missing_scopes",
        !.message = "The token does not include required scopes.",
        !.required = required,
        !.granted = granted,
        !.missing = missing(granted),
        !.authorize_url = buildAuthorizeUrl])

JsonSuccess(tokenData, user) ==
    Json(200, [EmptyBody EXCEPT
        !.fields = {"ok", "token", "user"},
        !.ok = TRUE,
        !.token = tokenData,
        !.user = user])

JsonUnexpected(errorMessage) ==
    Json(500, [EmptyBody EXCEPT
        !.fields = {"error", "message"},
        !.error = "unexpected_error",
        !.message = errorMessage])

(* src/unnamed/part_000 *)

HtmlMisconfigured ==
    Html(500, [EmptyBody EXCEPT
        !.fields = {"title", "message"},
        !.title = "Configuration Error",
        !.message = "The OAuth service is not properly configured. Please contact the administrator."])

HtmlExchangeFailed(st, d) ==
    Html(500, [EmptyBody EXCEPT
        !.fields = {"title", "message", "authorize_url"},
        !.title = "Authorization Failed",
        !.message = "There was an error during the authorization process. Please try again.",
        !.authorize_url = buildAuthorizeUrl])

HtmlMissingScopes(granted) ==
    Html(400, [EmptyBody EXCEPT
        !.fields = {"title", "message", "missing", "authorize_url"},
        !.title = "Missing Permissions",
        !.message = "The application requires additional permissions that were not granted:",
        !.missing = missing(granted),
        !.authorize_url = buildAuthorizeUrl])

\* res.send(page): the status stays at its default, 200
HtmlSuccess(tokenData, user) ==
    Html(200, [EmptyBody EXCEPT
        !.fields = {"title", "message", "redirect"},
        !.title = "Authorization Successful",
        !.message = "You have successfully authorized the application.",
        !.redirect = SUCCESS_REDIRECT_URL])

HtmlUnexpected(errorMessage) ==
    Html(500, [EmptyBody EXCEPT
        !.fields = {"title", "message", "authorize_url"},
        !.title = "Unexpected Error",
        !.message = "An unexpected error occurred during authorization. Please try again.",
        !.authorize_url = buildAuthorizeUrl])

(* src/unnamed/part_001 *)

BasicMissingCode ==
    Json(400, [EmptyBody EXCEPT !.fields = {"error"}, !.error = "Missing code"])

\* res.status(200).json(response.data)
BasicSuccess(tokenData) ==
    Json(200, [EmptyBody EXCEPT !.fields = {"token"}, !.token = tokenData])

BasicExchangeError ==
    Json(500, [EmptyBody EXCEPT
        !.fields = {"error"}, !.error = "Error exchanging code for token"])

-----------------------------------------------------------------------------
(* The handlers *)

config == <<variant, CLIENT_ID, CLIENT_SECRET, REDIRECT_URI, ENV_REQUIRED_SCOPES,
            ENV_SUCCESS_REDIRECT>>

Init ==
    /\ variant \in Variants
    /\ CLIENT_ID \in ClientIds
    /\ CLIENT_SECRET \in ClientSecrets
    /\ REDIRECT_URI \in RedirectUris
    /\ ENV_REQUIRED_SCOPES \in EnvRequiredScopes
    /\ ENV_SUCCESS_REDIRECT \in SuccessRedirects
    \* only src/unnamed/part_000 reads SUCCESS_REDIRECT_URL
    /\ variant # "html" => ENV_SUCCESS_REDIRECT = Undefined
    /\ code \in Codes
    /\ pc = "start"
    /\ calls = <<>>
    /\ tokenResp = NoResp
    /\ userResp = NoResp
    /\ caught = ""
    /\ outcome = "none"
    /\ response = NoResponse

\* the handler returns res.<...>: one response, one outcome
Finish(o, resp, c) ==
    /\ pc' = "done"
    /\ outcome' = o
    /\ response' = resp
    /\ caught' = c

\* the sanity check with the secret forgotten
MisconfiguredNoSecret == Falsy(CLIENT_ID) \/ Falsy(REDIRECT_URI)

\* if (!CLIENT_ID || !CLIENT_SECRET || !REDIRECT_URI)
Misconfigured == Falsy(CLIENT_ID) \/ Falsy(CLIENT_SECRET) \/ Falsy(REDIRECT_URI)

\* if (tokenResp.status !== 200) ... else
TokenOk(st) == st = 200

\* scope validation that never stops the flow
ScopesOkAlways(granted) == TRUE

\* if (missing.length > 0) ... else
ScopesOk(granted) == Len(missing(granted)) = 0

\* the identity taken from any answer, whatever its status
IdentityOfAnyStatus(resp) ==
    IF resp.kind = "answered" THEN resp.data ELSE NullData

\* let user = null; if (userResp.status === 200) user = userResp.data; catch: warn
IdentityOf(resp) ==
    IF resp.kind = "answered" /\ resp.status = 200 THEN resp.data ELSE NullData

(* handler, src/api/oauth.js *)

\* the synchronous part of handler, up to the first await or the first response
OauthJs_Start ==
    /\ variant = "json"
    /\ pc = "start"
    /\ IF Falsy(code)
         THEN /\ IF Misconfigured
                   THEN Finish("ConfigurationError", JsonMisconfigured, "")
                   ELSE Finish("RedirectToAuthorize", Redirect(buildAuthorizeUrl), "")
              /\ UNCHANGED calls
         ELSE /\ calls' = Append(calls, TokenRequest)
              /\ pc' = "awaitToken"
              /\ UNCHANGED <<outcome, response, caught>>
    /\ UNCHANGED <<config, code, tokenResp, userResp>>

\* axios.post resolves (validateStatus: () => true): status check, scope
\* validation, then the identity lookup is issued
OauthJs_TokenReturned ==
    /\ variant = "json"
    /\ pc = "awaitToken"
    /\ \E st \in TokenStatuses : \E d \in TokenBodies(st) :
         /\ tokenResp' = Answered(st, d)
         /\ IF ~TokenOk(st)
              THEN /\ Finish("ExchangeFailed", JsonExchangeFailed(st, d), "")
                   /\ UNCHANGED calls
              ELSE IF d.kind = "null"
              THEN \* tokenData.scope throws a TypeError, caught at the top level
                   /\ Finish("UnexpectedError", JsonUnexpected(NullScopeError),
                             NullScopeError)
                   /\ UNCHANGED calls
              ELSE IF ~ScopesOk(grantedScopes(d))
              THEN /\ Finish("ScopesMissing", JsonMissingScopes(grantedScopes(d)), "")
                   /\ UNCHANGED calls
              ELSE /\ calls' = Append(calls, UserRequest(d))
                   /\ pc' = "awaitUser"
                   /\ UNCHANGED <<outcome, response, caught>>
    /\ UNCHANGED <<config, code, userResp>>

\* axios.post rejects (timeout, DNS, connection reset): the top-level catch
OauthJs_TokenFailed ==
    /\ variant = "json"
    /\ pc = "awaitToken"
    /\ \E m \in TransportErrors :
         /\ tokenResp' = Failed(m)
         /\ Finish("UnexpectedError", JsonUnexpected(m), m)
    /\ UNCHANGED <<config, code, calls, userResp>>

\* axios.get resolves
OauthJs_UserReturned ==
    /\ variant = "json"
    /\ pc = "awaitUser"
    /\ \E st \in UserStatuses : \E d \in UserBodies(st) :
         /\ userResp' = Answered(st, d)
         /\ Finish("Success", JsonSuccess(tokenResp.data, IdentityOf(Answered(st, d))), "")
    /\ UNCHANGED <<config, code, calls, tokenResp>>

\* axios.get rejects: the inner catch only warns
OauthJs_UserFailed ==
    /\ variant = "json"
    /\ pc = "awaitUser"
    /\ \E m \in TransportErrors :
         /\ userResp' = Failed(m)
         /\ Finish("Success", JsonSuccess(tokenResp.data, IdentityOf(Failed(m))), "")
    /\ UNCHANGED <<config, code, calls, tokenResp>>

(* handler, src/unnamed/part_000 *)

\* the synchronous part of handler, up to the first await or the first response
Part000_Start ==
    /\ variant = "html"
    /\ pc = "start"
    /\ IF Falsy(code)
         THEN /\ IF Misconfigured
                   THEN Finish("ConfigurationError", HtmlMisconfigured, "")
                   ELSE Finish("RedirectToAuthorize", Redirect(buildAuthorizeUrl), "")
              /\ UNCHANGED calls
         ELSE /\ calls' = Append(calls, TokenRequest)
              /\ pc' = "awaitToken"
              /\ UNCHANGED <<outcome, response, caught>>
    /\ UNCHANGED <<config, code, tokenResp, userResp>>

\* axios.post resolves (validateStatus: () => true): status check, scope
\* validation, then the identity lookup is issued
Part000_TokenReturned ==
    /\ variant = "html"
    /\ pc = "awaitToken"
    /\ \E st \in TokenStatuses : \E d \in TokenBodies(st) :
         /\ tokenResp' = Answered(st, d)
         /\ IF ~TokenOk(st)
              THEN /\ Finish("ExchangeFailed", HtmlExchangeFailed(st, d), "")
                   /\ UNCHANGED calls
              ELSE IF d.kind = "null"
              THEN \* tokenData.scope throws a TypeError, caught at the top level
                   /\ Finish("UnexpectedError", HtmlUnexpected(NullScopeError),
                             NullScopeError)
                   /\ UNCHANGED calls
              ELSE IF ~ScopesOk(grantedScopes(d))
              THEN /\ Finish("ScopesMissing", HtmlMissingScopes(grantedScopes(d)), "")
                   /\ UNCHANGED calls
              ELSE /\ calls' = Append(calls, UserRequest(d))
                   /\ pc' = "awaitUser"
                   /\ UNCHANGED <<outcome, response, caught>>
    /\ UNCHANGED <<config, code, userResp>>

\* axios.post rejects (timeout, DNS, connection reset): the top-level catch
Part000_TokenFailed ==
    /\ variant = "html"
    /\ pc = "awaitToken"
    /\ \E m \in TransportErrors :
         /\ tokenResp' = Failed(m)
         /\ Finish("UnexpectedError", HtmlUnexpected(m), m)
    /\ UNCHANGED <<config, code, calls, userResp>>

\* axios.get resolves
Part000_UserReturned ==
    /\ variant = "html"
    /\ pc = "awaitUser"
    /\ \E st \in UserStatuses : \E d \in UserBodies(st) :
         /\ userResp' = Answered(st, d)
         /\ Finish("Success", HtmlSuccess(tokenResp.data, IdentityOf(Answered(st, d))), "")
    /\ UNCHANGED <<config, code, calls, tokenResp>>

\* axios.get rejects: the inner catch only warns
Part000_UserFailed ==
    /\ variant = "html"
    /\ pc = "awaitUser"
    /\ \E m \in TransportErrors :
         /\ userResp' = Failed(m)
         /\ Finish("Success", HtmlSuccess(tokenResp.data, IdentityOf(Failed(m))), "")
    /\ UNCHANGED <<config, code, calls, tokenResp>>

(* handler, src/unnamed/part_001 *)

\* axios's default validateStatus: status >= 200 && status < 300
AxiosDefaultValidateStatus(st) == st >= 200 /\ st < 300

Part001_Start ==
    /\ variant = "basic"
    /\ pc = "start"
    /\ IF Falsy(code)
         THEN /\ Finish("MissingCode", BasicMissingCode, "")
              /\ UNCHANGED calls
         ELSE /\ calls' = Append(calls, TokenRequest)
              /\ pc' = "awaitToken"
              /\ UNCHANGED <<outcome, response, caught>>
    /\ UNCHANGED <<config, code, tokenResp, userResp>>

\* axios.post resolves for a 2xx status and rejects for any other
Part001_TokenReturned ==
    /\ variant = "basic"
    /\ pc = "awaitToken"
    /\ \E st \in TokenStatuses : \E d \in TokenBodies(st) :
         /\ tokenResp' = Answered(st, d)
         /\ IF AxiosDefaultValidateStatus(st)
              THEN Finish("Success", BasicSuccess(d), "")
              ELSE Finish("ExchangeFailed", BasicExchangeError,
                          "Request failed with status code " \o ToString(st))
    /\ UNCHANGED <<config, code, calls, userResp>>

Part001_TokenFailed ==
    /\ variant = "basic"
    /\ pc = "awaitToken"
    /\ \E m \in TransportErrors :
         /\ tokenResp' = Failed(m)
         /\ Finish("ExchangeFailed", BasicExchangeError, m)
    /\ UNCHANGED <<config, code, calls, userResp>>

Next ==
    \/ OauthJs_Start
    \/ OauthJs_TokenReturned
    \/ OauthJs_TokenFailed
    \/ OauthJs_UserReturned
    \/ OauthJs_UserFailed
    \/ Part000_Start
    \/ Part000_TokenReturned
    \/ Part000_TokenFailed
    \/ Part000_UserReturned
    \/ Part000_UserFailed
    \/ Part001_Start
    \/ Part001_TokenReturned
    \/ Part001_TokenFailed

Spec == Init /\ [][Next]_vars

-----------------------------------------------------------------------------
(* Vocabulary of the properties *)

Range(seq) == {seq[i] : i \in 1..Len(seq)}

\* every one of CLIENT_ID, CLIENT_SECRET and REDIRECT_URI is set and non-empty
ConfigComplete ==
    /\ CLIENT_ID \notin {Undefined, <<>>}
    /\ CLIENT_SECRET \notin {Undefined, <<>>}
    /\ REDIRECT_URI \notin {Undefined, <<>>}

RECURSIVE Tokens(_)
\* the space-separated tokens of a string: its maximal runs of non-space characters
Tokens(s) ==
    IF s = Undefined \/ Len(s) = 0 THEN <<>>
    ELSE IF s[Len(s)] = " " THEN Tokens(SubSeq(s, 1, Len(s) - 1))
    ELSE LET start == CHOOSE i \in 1..Len(s) :
                         /\ \A j \in i..Len(s) : s[j] # " "
                         /\ i = 1 \/ s[i - 1] = " "
         IN Tokens(SubSeq(s, 1, start - 1)) \o <<SubSeq(s, start, Len(s))>>

\* the required scopes of the configuration
RequiredTokens ==
    Tokens(IF ENV_REQUIRED_SCOPES \in {Undefined, <<>>} THEN DefaultScopes
           ELSE ENV_REQUIRED_SCOPES)

\* the required scopes that a granted scope string leaves out, as positions
MissingPositions(scope) ==
    {i \in 1..Len(RequiredTokens) : RequiredTokens[i] \notin Range(Tokens(scope))}

\* the required scopes absent from the granted ones, in the order of the required
ExpectedMissing(scope) ==
    LET idx == MissingPositions(scope) IN
    [k \in 1..Cardinality(idx) |->
        RequiredTokens[CHOOSE i \in idx : Cardinality({j \in idx : j <= i}) = k]]

\* s occurs in t as a contiguous substring
Occurs(s, t) ==
    \E i \in 1..(Len(t) - Len(s) + 1) : SubSeq(t, i, i + Len(s) - 1) = s

RECURSIVE FormDecode(_)
\* URL-decoding of a query component: "+" is a space, %XX is the character
FormDecode(s) ==
    IF Len(s) = 0 THEN <<>>
    ELSE IF Head(s) = "+" THEN <<" ">> \o FormDecode(Tail(s))
    ELSE IF Head(s) = "%" /\ Len(s) >= 3
              /\ \E ch \in DOMAIN PctCode : PctCode[ch] = SubSeq(s, 1, 3)
         THEN <<CHOOSE ch \in DOMAIN PctCode : PctCode[ch] = SubSeq(s, 1, 3)>>
              \o FormDecode(SubSeq(s, 4, Len(s)))
    ELSE <<Head(s)>> \o FormDecode(Tail(s))

\* the decoded value of the query parameter `name` of a URL, Undefined if it has none
Param(url, name) ==
    LET parts == Split(url.query, "&")
        hits  == {i \in 1..Len(parts) :
                     LET eq == IndexOf(parts[i], "=", 1) IN
                     eq > 0 /\ FormDecode(SubSeq(parts[i], 1, eq - 1)) = name}
    IN IF hits = {} THEN Undefined
       ELSE LET i  == CHOOSE h \in hits : \A g \in hits : h <= g
                eq == IndexOf(parts[i], "=", 1)
            IN FormDecode(SubSeq(parts[i], eq + 1, Len(parts[i])))

\* the raw (still encoded) value of the query parameter `name` of a URL
RawParam(url, name) ==
    LET parts == Split(url.query, "&")
        hits  == {i \in 1..Len(parts) :
                     LET eq == IndexOf(parts[i], "=", 1) IN
                     eq > 0 /\ SubSeq(parts[i], 1, eq - 1) = name}
    IN IF hits = {} THEN Undefined
       ELSE LET i  == CHOOSE h \in hits : \A g \in hits : h <= g
                eq == IndexOf(parts[i], "=", 1)
            IN SubSeq(parts[i], eq + 1, Len(parts[i]))

P_client_id    == <<"c","l","i","e","n","t","_","i","d">>
P_redirect_uri == <<"r","e","d","i","r","e","c","t","_","u","r","i">>
P_scope        == <<"s","c","o","p","e">>

IssuedOps == [i \in 1..Len(calls) |-> calls[i].op]

-----------------------------------------------------------------------------
(* Properties *)

\* C1 (handlers of src/api/oauth.js and src/unnamed/part_001): a request
\* without a `code`, under a complete configuration, is answered with a 302
\* whose Location is the URL of buildAuthorizeUrl, and that URL carries the
\* configured client id, the configured redirect URI and every required scope.
C1_NoCodeRedirects ==
    (/\ variant \in {"json", "basic"}
     /\ pc = "done"
     /\ code = Undefined
     /\ ConfigComplete)
    => /\ response.status = 302
       /\ response.location = buildAuthorizeUrl
       /\ Param(response.location, P_client_id) = CLIENT_ID
       /\ Param(response.location, P_redirect_uri) = REDIRECT_URI
       /\ \A r \in Range(RequiredTokens) :
             Occurs(r, Param(response.location, P_scope))

\* C2 (handlers of src/api/oauth.js and src/unnamed/part_000): a request
\* without a `code`, with one of CLIENT_ID, CLIENT_SECRET, REDIRECT_URI empty
\* or unset, is answered with a 500 configuration error, and no outbound call
\* is ever issued.
C2_NoCodeMisconfigured ==
    (/\ variant \in {"json", "html"}
     /\ code = Undefined
     /\ ~ConfigComplete)
    => /\ calls = <<>>
       /\ pc \in {"start", "done"}
       /\ pc = "done" =>
            /\ response.status = 500
            /\ outcome = "ConfigurationError"
            /\ response.type \in {"json", "html"}
            /\ response.type = "json" => response.body.error = "server_misconfigured"
            /\ response.type = "html" => response.body.title = "Configuration Error"
            /\ "authorize_url" \notin response.body.fields

\* a request without a code and with an unset secret has been answered
C2_Witness ==
    /\ variant \in {"json", "html"}
    /\ code = Undefined
    /\ CLIENT_SECRET = Undefined
    /\ CLIENT_ID \notin {Undefined, <<>>}
    /\ REDIRECT_URI \notin {Undefined, <<>>}
    /\ pc = "done"
    /\ response.status = 500

\* C3 (all three handlers): with a `code`, when the token endpoint answers
\* with a status other than 200, the response is a 500 exchange failure that
\* holds the status of the token endpoint and a retry (authorize) URL, and the
\* identity lookup is not issued.
C3_ExchangeFailure ==
    (/\ pc = "done"
     /\ tokenResp.kind = "answered"
     /\ tokenResp.status # 200)
    => /\ response.status = 500
       /\ "status" \in response.body.fields
       /\ response.body.status = tokenResp.status
       /\ "authorize_url" \in response.body.fields
       /\ response.body.authorize_url = buildAuthorizeUrl
       /\ "GET /users/@me" \notin Range(IssuedOps)

\* C4 (handler of src/api/oauth.js): with a `code`, when the token exchange
\* fails at the transport level, the outcome is ExchangeFailed and the response
\* holds a fresh authorize URL.
C4_TransportFailure ==
    (/\ variant = "json"
     /\ pc = "done"
     /\ tokenResp.kind = "failed")
    => /\ outcome = "ExchangeFailed"
       /\ "authorize_url" \in response.body.fields
       /\ response.body.authorize_url = buildAuthorizeUrl


\* C5 (handler of src/api/oauth.js): after a token exchange answered with 200
\* and a token object, the handler answers 400 missing_scopes if and only if
\* some required scope is not among the granted ones, and the `missing` it
\* reports is exactly the required scopes absent from the granted ones, in the
\* order of the required scopes, whatever the order of the granted scopes.
C5_MissingScopes ==
    (/\ variant = "json"
     /\ tokenResp.kind = "answered"
     /\ tokenResp.status = 200
     /\ tokenResp.data.kind = "token")
    => IF MissingPositions(tokenResp.data.scope) # {}
         THEN /\ pc = "done"
              /\ response.status = 400
              /\ response.body.error = "missing_scopes"
              /\ response.body.missing = ExpectedMissing(tokenResp.data.scope)
              /\ response.body.required = RequiredTokens
              /\ response.body.granted = Tokens(tokenResp.data.scope)
         ELSE /\ response.status # 400
              /\ response.body.error # "missing_scopes"

\* a 400 that reports two missing scopes, in an order that is not the sorted
\* one, while another scope was granted
C5_Witness ==
    /\ variant = "json"
    /\ pc = "done"
    /\ response.status = 400
    /\ response.body.missing = <<<<"b",".","c">>, <<"a">>>>
    /\ Len(response.body.granted) >= 1

\* C6 as stated (handlers of src/api/oauth.js and src/unnamed/part_000): when
\* the token exchange answered 200 and every required scope is granted, the
\* response is a 200 that carries the token fields and the identity, the
\* identity being null when the lookup answered another status or failed.
C6_SuccessCarriesToken ==
    (/\ variant \in {"json", "html"}
     /\ pc = "done"
     /\ tokenResp.kind = "answered"
     /\ tokenResp.status = 200
     /\ tokenResp.data.kind = "token"
     /\ MissingPositions(tokenResp.data.scope) = {})
    => /\ response.status = 200
       /\ {"token", "user"} \subseteq response.body.fields
       /\ response.body.token = tokenResp.data
       /\ response.body.user =
            (IF userResp.kind = "answered" /\ userResp.status = 200
               THEN userResp.data ELSE NullData)

\* C6 as amended: the response is a 200 Success whatever the identity lookup
\* does; the handler of src/api/oauth.js carries the token fields and the
\* identity (null unless the lookup answered 200); the handler of
\* src/unnamed/part_000 answers with a page that carries neither.
C6_SuccessWhateverIdentity ==
    (/\ variant \in {"json", "html"}
     /\ pc = "done"
     /\ tokenResp.kind = "answered"
     /\ tokenResp.status = 200
     /\ tokenResp.data.kind = "token"
     /\ MissingPositions(tokenResp.data.scope) = {})
    => /\ response.status = 200
       /\ outcome = "Success"
       /\ userResp.kind \in {"answered", "failed"}
       /\ variant = "json" =>
            /\ {"token", "user"} \subseteq response.body.fields
            /\ response.body.token = tokenResp.data
            /\ response.body.user =
                 (IF userResp.kind = "answered" /\ userResp.status = 200
                    THEN userResp.data ELSE NullData)
       /\ variant = "html" =>
            /\ response.body.fields \cap {"token", "user"} = {}
            /\ response.body.token = AbsentData
            /\ response.body.user = AbsentData

\* the identity endpoint answered 401 and the JSON handler still answered 200
C6_Witness ==
    /\ variant = "json"
    /\ pc = "done"
    /\ userResp.kind = "answered"
    /\ userResp.status = 401
    /\ response.status = 200
    /\ response.body.user = NullData
    /\ response.body.token.kind = "token"

\* C7 (handlers of src/api/oauth.js and src/unnamed/part_000): the response of
\* an UnexpectedError never holds the message of the caught exception; it holds
\* a generic message and a retry (authorize) link.
C7_NoExceptionLeak ==
    (/\ variant \in {"json", "html"}
     /\ outcome = "UnexpectedError")
    => /\ response.body.message # caught
       /\ response.body.error # caught
       /\ "authorize_url" \in response.body.fields
       /\ response.body.authorize_url = buildAuthorizeUrl

\* C8 (handlers of src/api/oauth.js and src/unnamed/part_000): an outbound
\* call has been issued only if CLIENT_ID, CLIENT_SECRET and REDIRECT_URI are
\* all non-empty, and an invocation under an incomplete configuration ends in
\* ConfigurationError.
C8_ConfigGatesCalls ==
    variant \in {"json", "html"}
    => /\ calls # <<>> => ConfigComplete
       /\ (pc = "done" /\ ~ConfigComplete) => outcome = "ConfigurationError"


\* the outbound calls issued so far are the token exchange alone, or the token
\* exchange followed by one identity lookup that came after a 200 answer whose
\* scopes cover the required ones
CallsInOrder ==
    /\ IssuedOps \in {<<>>, <<"POST /oauth2/token">>,
                      <<"POST /oauth2/token", "GET /users/@me">>}
    /\ Len(calls) = 2 =>
         /\ tokenResp.kind = "answered"
         /\ tokenResp.status = 200
         /\ tokenResp.data.kind = "token"
         /\ MissingPositions(tokenResp.data.scope) = {}
    /\ (pc = "done" /\ outcome # "Success") => "GET /users/@me" \notin Range(IssuedOps)

\* a step issues at most one call, appended to those already issued, and none
\* once the handler has responded
CallsStep ==
    /\ pc = "done" => calls' = calls
    /\ calls' # calls => /\ Len(calls') = Len(calls) + 1
                         /\ SubSeq(calls', 1, Len(calls)) = calls
                         /\ outcome = "none"
                         /\ outcome' = "none"

\* C9 (all handlers): the outbound calls of an invocation are sequential and
\* never retried: the token exchange is issued at most once, the identity
\* lookup at most once and only after the token exchange answered 200 and the
\* scope validation found nothing missing, and no call is issued after a
\* terminal outcome.
C9_SequentialCalls == []CallsInOrder /\ [][CallsStep]_vars

\* both calls were issued, in order, and the handler has responded
C9_Witness ==
    /\ pc = "done"
    /\ IssuedOps = <<"POST /oauth2/token", "GET /users/@me">>
    /\ outcome = "Success"

\* C10 (buildAuthorizeUrl of src/api/oauth.js and src/unnamed/part_000): the
\* `scope` query parameter of an issued authorize URL, once URL-decoded, is the
\* required scopes separated by single spaces, and the raw parameter holds no
\* unencoded space.
C10_ScopeParamDecodesToSpaces ==
    (variant \in {"json", "html"} /\ response.type = "redirect")
    => /\ Param(response.location, P_scope) = Join(RequiredTokens, <<" ">>)
       /\ " " \notin Range(RawParam(response.location, P_scope))

====
